---- MODULE Spec2Model ----
(***************************************************************************)
(* Model of scripts/deploy_to_grading.py, the Deploy-to-Grading pipeline   *)
(* driver: a sequential orchestrator that loads the assignment config,     *)
(* checks out the due date, overrides the repository, evaluates every task *)
(* (task config, override, metrics, evaluation), presents the results and  *)
(* reverts the checkout.  Child processes, the YAML loader and the file    *)
(* system are the environment: their outcomes are nondeterministic inputs. *)
(***************************************************************************)
EXTENDS Integers, Sequences, FiniteSets, TLC

VARIABLES
    pc,               \* position of the interpreter in _main and its callees
    stdout,           \* lines printed so far, each a sequence of string pieces
    trace,            \* config loads and child processes, in the order they happened
    call,             \* arguments of the latest subprocess.run call
    exitCode,         \* <<>> while the process runs, <<status>> once it has ended
    environ,          \* os.environ of the orchestrator process
    assignment_conf,  \* result of _load_assignment_config
    tasks,            \* assignment_conf["ASSIGNMENT_TASKS"].split(" ")
    taskIdx,          \* index in tasks of the task being evaluated
    task_conf,        \* result of _load_task_config for the current task
    metrics,          \* task_conf["<TASK>_METRICS"].split(" ")
    metricIdx,        \* index in metrics of the next metric to execute
    files             \* the metric script files os.path.exists last found to exist

vars == <<pc, stdout, trace, call, exitCode, environ, assignment_conf, tasks, taskIdx,
          task_conf, metrics, metricIdx, files>>

-----------------------------------------------------------------------------
(* Bounds of the model and the input alphabets.                            *)

\* longest ASSIGNMENT_TASKS value, in characters
MaxTasksLen == 3
\* longest <TASK>_METRICS value, in characters
MaxMetricsLen == 2

TaskChars == {"a", "b", " "}
MetricChars == {"m", " "}

\* returncode values a child process is observed to end with
ReturnCodes == {0, 1}

\* Strings are sequences of one-character strings.
Strings(chars, n) == UNION {[1..k -> chars] : k \in 0..n}

-----------------------------------------------------------------------------
(* Python values and library functions the script uses.                    *)

\* Python's None, where a string is expected (taskname, cwd)
None == <<"None">>

\* truth value of "if taskname:": None and "" are false
Truthy(x) == x # None /\ x # <<>>

\* variant: a trailing blank does not start another piece
RECURSIVE split_rstrip(_)
split_rstrip(s) ==
    IF \A i \in 1..Len(s) : s[i] # " "
    THEN <<s>>
    ELSE LET i == CHOOSE k \in 1..Len(s) :
                      s[k] = " " /\ \A j \in 1..(k - 1) : s[j] # " "
         IN IF i = Len(s)
            THEN <<SubSeq(s, 1, i - 1)>>
            ELSE <<SubSeq(s, 1, i - 1)>> \o split_rstrip(SubSeq(s, i + 1, Len(s)))

\* str.split(" "): cut at every single blank, keeping empty pieces
RECURSIVE split(_)
split(s) ==
    IF \A i \in 1..Len(s) : s[i] # " "
    THEN <<s>>
    ELSE LET i == CHOOSE k \in 1..Len(s) :
                      s[k] = " " /\ \A j \in 1..(k - 1) : s[j] # " "
         IN <<SubSeq(s, 1, i - 1)>> \o split(SubSeq(s, i + 1, Len(s)))

upperChar(c) == CASE c = "a" -> "A" [] c = "b" -> "B" [] c = "m" -> "M" [] OTHER -> c

\* str.upper()
upper(s) == [i \in 1..Len(s) |-> upperChar(s[i])]

\* os.path.join(a, b) for a relative b
path_join(a, b) ==
    IF a = <<>> THEN b
    ELSE IF a[Len(a)] = "/" THEN a \o b
    ELSE a \o <<"/">> \o b

\* dict(base, **kw): the keyword arguments win over base
dict_update(base, kw) ==
    [k \in DOMAIN base \cup DOMAIN kw |-> IF k \in DOMAIN kw THEN kw[k] ELSE base[k]]

\* the status the parent of the interpreter sees for exit(n)
ExitStatus(n) == n % 256

-----------------------------------------------------------------------------
(* Constants of the script and the keys of the configurations.             *)

ASSIGNMENT_FILE_NAME == <<"assignment.yml">>
TASK_FILENAME == <<"task.yml">>

D2G_PATH == <<"D2G_PATH">>
ASSIGNMENT_DUE_DATE == <<"ASSIGNMENT_DUE_DATE">>
ASSIGNMENT_TEMPLATE_REPOSITORY == <<"ASSIGNMENT_TEMPLATE_REPOSITORY">>
ASSIGNMENT_TASKS == <<"ASSIGNMENT_TASKS">>

\* "%s_METRICS" % taskname.upper()
MetricsKey(taskname) == upper(taskname) \o <<"_METRICS">>

\* outcomes of conf_loader.load_yaml
LoadOutcomes == {"ok", "FileNotFoundError", "YAMLError"}

\* the mapping load_yaml returns for assignment.yml
AssignmentYaml(taskList) ==
    (ASSIGNMENT_DUE_DATE :> <<"2023-05-01">>)
    @@ (ASSIGNMENT_TEMPLATE_REPOSITORY :> <<"template-repo">>)
    @@ (ASSIGNMENT_TASKS :> taskList)

\* the mapping load_yaml returns for <task>/task.yml with the given prefix
TaskYaml(prefix, metricList) ==
    (prefix \o <<"_METRICS">>) :> metricList

\* an entry of trace for a call of load_yaml; iter is the iteration of the
\* task loop the call belongs to (0 outside the loop)
LoadEvent(iter, path, outcome) ==
    [kind |-> "load", step |-> "load_yaml", iter |-> iter, name |-> path,
     exc |-> outcome, rc |-> 0]

\* an entry of trace for a child process that ended with rc; name is the task
\* or metric the child was started for (None when there is none)
RunEvent(step, iter, name, rc) ==
    [kind |-> "run", step |-> step, iter |-> iter, name |-> name, exc |-> "ok", rc |-> rc]

\* subprocess.run(argv, cwd=cwd, env=env); env is the environment the child
\* gets, which is os.environ when the call passes none
Run(argv, cwd, env) == [argv |-> argv, cwd |-> cwd, env |-> env]

ScriptPath(rel) == path_join(environ[D2G_PATH], <<rel>>)

-----------------------------------------------------------------------------
(* _print_usage, _print_error_and_exit and the uncaught exception.         *)

_print_usage ==
    << <<"usage: deploy_to_grading.py">>,
       <<"       Executes the Deploy-to-Grading pipeline. Make sure to">>,
       <<"       execute the script inside an assignment folder and">>,
       <<"       that the D2G_PATH env variable is set.">> >>

\* variant: the error path ends the process with exit(0)
_print_error_and_exit_status0(out, error_msg) ==
    /\ stdout' = out \o <<error_msg>> \o _print_usage
    /\ exitCode' = <<ExitStatus(0)>>
    /\ pc' = "exited"

\* out: stdout including what the caller printed before the error
_print_error_and_exit(out, error_msg) ==
    /\ stdout' = out \o <<error_msg>> \o _print_usage
    /\ exitCode' = <<ExitStatus(-1)>>
    /\ pc' = "exited"

\* an exception nothing catches: traceback on stderr, status 1
uncaught_exception(out) ==
    /\ stdout' = out
    /\ exitCode' = <<1>>
    /\ pc' = "exited"

\* variant: only a negative returncode (death by signal) counts as an error
ReturnedError_negative(rc) == rc < 0

\* if proc.returncode != 0
ReturnedError(rc) == rc # 0

\* the statement after a call that returned normally
Continue(out, next) ==
    /\ stdout' = out
    /\ pc' = next
    /\ UNCHANGED exitCode

-----------------------------------------------------------------------------
(* The initial state: the interpreter is about to call _main.              *)

\* the environment the orchestrator is started in; besides D2G_PATH it holds
\* a variable named like a task configuration key
StartEnviron ==
    (D2G_PATH :> <<"/opt/d2g">>) @@ (<<"PATH">> :> <<"/usr/bin">>)
    @@ (<<"A", "_METRICS">> :> <<"inherited">>)

Init ==
    /\ pc = "load_assignment"
    /\ stdout = <<>>
    /\ trace = <<>>
    /\ call = Run(<<>>, None, <<>>)
    /\ exitCode = <<>>
    /\ environ = StartEnviron
    /\ assignment_conf = <<>>
    /\ tasks = <<>>
    /\ taskIdx = 0
    /\ task_conf = <<>>
    /\ metrics = <<>>
    /\ metricIdx = 0
    /\ files = {}

-----------------------------------------------------------------------------
(* Steps 1 and 2 and the assignment-level override.                        *)

_load_assignment_config ==
    /\ pc = "load_assignment"
    /\ LET out == Append(stdout, <<"Loading assignment configuration">>)
       IN \E outcome \in LoadOutcomes, taskList \in Strings(TaskChars, MaxTasksLen) :
            /\ trace' = Append(trace, LoadEvent(0, ASSIGNMENT_FILE_NAME, outcome))
            /\ IF outcome = "ok"
               THEN /\ assignment_conf' = AssignmentYaml(taskList)
                    /\ Continue(out, "checkout")
               ELSE /\ _print_error_and_exit(out, <<"Failed to load ">> \o ASSIGNMENT_FILE_NAME)
                    /\ UNCHANGED assignment_conf
    /\ UNCHANGED <<call, environ, tasks, taskIdx, task_conf, metrics, metricIdx, files>>

_checkout_due_date ==
    /\ pc = "checkout"
    /\ LET out == Append(stdout, <<"Checking out due date">>)
           script_path == ScriptPath("scripts/checkout_due_date.sh")
           due_date == assignment_conf[ASSIGNMENT_DUE_DATE]
       IN \E rc \in ReturnCodes :
            /\ call' = Run(<<script_path, due_date>>, None, environ)
            /\ trace' = Append(trace, RunEvent("checkout_due_date", 0, None, rc))
            /\ IF ReturnedError(rc)
               THEN _print_error_and_exit(out, <<"Failed to evaluate checkout commit">>)
               ELSE Continue(out, "override_assignment")
    /\ UNCHANGED <<environ, assignment_conf, tasks, taskIdx, task_conf, metrics, metricIdx, files>>

\* _override_repo, called in iteration iter of the task loop (0: from _main)
_override_repo(iter, taskname, repository, task_configuration, next) ==
    LET out == Append(stdout, <<"Overriding repository for task ">> \o taskname)
        script_path == ScriptPath("scripts/override_repo.py")
    IN \E rc \in ReturnCodes :
         /\ call' = IF Truthy(taskname)
                    THEN Run(<<script_path, <<"-t">>, taskname, <<"-r">>, repository>>,
                             taskname, task_configuration)
                    ELSE Run(<<script_path, <<"-a">>, <<"-r">>, repository>>,
                             None, environ)
         /\ trace' = Append(trace, RunEvent("override_repo", iter, taskname, rc))
         /\ IF ReturnedError(rc)
            THEN _print_error_and_exit(out, <<"Failed to execute override_repo.py">>)
            ELSE Continue(out, next)

\* variant: the task loop starts at the second task when there is one
OverrideAssignment_second ==
    /\ pc = "override_assignment"
    /\ _override_repo(0, None, assignment_conf[ASSIGNMENT_TEMPLATE_REPOSITORY], None,
                      "load_task")
    /\ IF pc' = "exited"
       THEN UNCHANGED <<tasks, taskIdx>>
       ELSE /\ tasks' = split(assignment_conf[ASSIGNMENT_TASKS])
            /\ taskIdx' = IF Len(tasks') > 1 THEN 2 ELSE 1
    /\ UNCHANGED <<environ, assignment_conf, task_conf, metrics, metricIdx, files>>

\* _main, lines 158 to 161: the assignment-level override and the loop header
OverrideAssignment ==
    /\ pc = "override_assignment"
    /\ _override_repo(0, None, assignment_conf[ASSIGNMENT_TEMPLATE_REPOSITORY], None,
                      "load_task")
    /\ IF pc' = "exited"
       THEN UNCHANGED <<tasks, taskIdx>>
       ELSE /\ tasks' = split(assignment_conf[ASSIGNMENT_TASKS])
            /\ taskIdx' = 1
    /\ UNCHANGED <<environ, assignment_conf, task_conf, metrics, metricIdx, files>>

-----------------------------------------------------------------------------
(* _evaluate_task: steps 3 to 6 for the task tasks[taskIdx].               *)

\* variant: a task whose task.yml cannot be loaded is skipped
_load_task_config_skip ==
    /\ pc = "load_task"
    /\ LET taskname == tasks[taskIdx]
           out == Append(stdout, <<"Loading task configuration for task ">> \o taskname)
           task_config_path == path_join(taskname, TASK_FILENAME)
       IN \E outcome \in LoadOutcomes, metricList \in Strings(MetricChars, MaxMetricsLen) :
            /\ trace' = Append(trace, LoadEvent(taskIdx, task_config_path, outcome))
            /\ IF outcome = "ok"
               THEN /\ task_conf' = TaskYaml(upper(taskname), metricList)
                    /\ Continue(out, "override_task")
                    /\ UNCHANGED taskIdx
               ELSE /\ UNCHANGED task_conf
                    /\ IF taskIdx < Len(tasks)
                       THEN /\ Continue(out, "load_task")
                            /\ taskIdx' = taskIdx + 1
                       ELSE /\ Continue(out, "artifact")
                            /\ UNCHANGED taskIdx
    /\ UNCHANGED <<call, environ, assignment_conf, tasks, metrics, metricIdx, files>>

_load_task_config ==
    /\ pc = "load_task"
    /\ LET taskname == tasks[taskIdx]
           out == Append(stdout, <<"Loading task configuration for task ">> \o taskname)
           task_config_path == path_join(taskname, TASK_FILENAME)
       IN \E outcome \in LoadOutcomes, metricList \in Strings(MetricChars, MaxMetricsLen) :
            /\ trace' = Append(trace,
                   LoadEvent(taskIdx, task_config_path, outcome))
            /\ IF outcome = "ok"
               THEN /\ task_conf' = TaskYaml(upper(taskname), metricList)
                    /\ Continue(out, "override_task")
               ELSE /\ _print_error_and_exit(out, <<"Failed to load ">> \o task_config_path)
                    /\ UNCHANGED task_conf
    /\ UNCHANGED <<call, environ, assignment_conf, tasks, taskIdx, metrics, metricIdx,
                   files>>

\* _evaluate_task, lines 123 to 125: the task-level override and the header of
\* the loop of _execute_metrics
OverrideTask ==
    /\ pc = "override_task"
    /\ _override_repo(taskIdx, tasks[taskIdx],
                      assignment_conf[ASSIGNMENT_TEMPLATE_REPOSITORY], task_conf, "metric")
    /\ IF pc' = "exited"
       THEN UNCHANGED <<metrics, metricIdx, files>>
       ELSE /\ metrics' = split(task_conf[MetricsKey(tasks[taskIdx])])
            /\ metricIdx' = 1
    /\ UNCHANGED <<environ, assignment_conf, tasks, taskIdx, task_conf, files>>

\* the script files os.path.exists is asked about for a metric
MetricBasePath(metric) == ScriptPath("scripts/metrics/") \o metric

MetricFiles(metric) ==
    {MetricBasePath(metric) \o <<".sh">>, MetricBasePath(metric) \o <<".py">>}

\* variant: the .py script is looked for before the .sh script
_get_metric_script_path_py_first(metric, exist) ==
    LET base_path == MetricBasePath(metric)
    IN IF base_path \o <<".py">> \in exist THEN <<base_path \o <<".py">>>>
       ELSE IF base_path \o <<".sh">> \in exist THEN <<base_path \o <<".sh">>>>
       ELSE <<<<"./gradlew">>, metric>>

\* exist: the paths that exist when the function is called
_get_metric_script_path(metric, exist) ==
    LET base_path == MetricBasePath(metric)
    IN IF base_path \o <<".sh">> \in exist THEN <<base_path \o <<".sh">>>>
       ELSE IF base_path \o <<".py">> \in exist THEN <<base_path \o <<".py">>>>
       ELSE <<<<"./gradlew">>, metric>>

\* one iteration of the loop of _execute_metrics
_execute_metrics ==
    /\ pc = "metric"
    /\ LET taskname == tasks[taskIdx]
           metric == metrics[metricIdx]
           out == Append(stdout, <<"Executing metric ">> \o metric
                                    \o <<" for task ">> \o taskname)
       IN \E exist \in SUBSET MetricFiles(metric) :
            LET metric_script == _get_metric_script_path(metric, exist)
            IN /\ files' = exist
               /\ call' = Run(metric_script, taskname, environ)
               /\ IF taskname = <<>>
                  THEN \* cwd="": the chdir of the child fails, run raises FileNotFoundError
                       /\ uncaught_exception(out)
                       /\ UNCHANGED <<trace, metricIdx>>
                  ELSE \E rc \in ReturnCodes :
                         /\ trace' = Append(trace, RunEvent("metric", taskIdx, metric, rc))
                         /\ IF ReturnedError(rc)
                            THEN /\ _print_error_and_exit(out,
                                        <<"Failed to execute metric ">> \o metric)
                                 /\ UNCHANGED metricIdx
                            ELSE IF metricIdx < Len(metrics)
                                 THEN /\ Continue(out, "metric")
                                      /\ metricIdx' = metricIdx + 1
                                 ELSE /\ Continue(out, "evaluate")
                                      /\ UNCHANGED metricIdx
    /\ UNCHANGED <<environ, assignment_conf, tasks, taskIdx, task_conf, metrics>>

\* _evaluate_metrics, and the step of the task loop of _main after it
_evaluate_metrics ==
    /\ pc = "evaluate"
    /\ LET taskname == tasks[taskIdx]
           out == Append(stdout, <<"Evaluating metrics for task ">> \o taskname)
           script_path == ScriptPath("scripts/evaluate_task.py")
       IN IF DOMAIN task_conf \cap DOMAIN assignment_conf # {}
          THEN \* dict() got multiple values for keyword argument: TypeError
               /\ uncaught_exception(out)
               /\ UNCHANGED <<trace, call, taskIdx>>
          ELSE \E rc \in ReturnCodes :
                 /\ call' = Run(<<script_path, taskname>>, taskname,
                                dict_update(dict_update(environ, task_conf),
                                            assignment_conf))
                 /\ trace' = Append(trace, RunEvent("evaluate_task", taskIdx, taskname, rc))
                 /\ IF ReturnedError(rc)
                    THEN /\ _print_error_and_exit(out,
                                <<"Failed to execute evaluate_task.py">>)
                         /\ UNCHANGED taskIdx
                    ELSE IF taskIdx < Len(tasks)
                         THEN /\ Continue(out, "load_task")
                              /\ taskIdx' = taskIdx + 1
                         ELSE /\ Continue(out, "artifact")
                              /\ UNCHANGED taskIdx
    /\ UNCHANGED <<environ, assignment_conf, tasks, task_conf, metrics, metricIdx, files>>

-----------------------------------------------------------------------------
(* Step 7 and the revert of step 2.                                        *)

\* variant: a failed create_artifact.sh leads to the revert of the checkout
_create_artifact_rollback ==
    /\ pc = "artifact"
    /\ LET out == Append(stdout, <<"Creating artifact">>)
           script_path == ScriptPath("scripts/create_artifact.sh")
       IN \E rc \in ReturnCodes :
            /\ call' = Run(<<script_path>>, None, dict_update(environ, assignment_conf))
            /\ trace' = Append(trace, RunEvent("create_artifact", 0, None, rc))
            /\ IF ReturnedError(rc)
               THEN Continue(out \o <<<<"Failed to execute create_artifact.sh">>>>, "revert")
               ELSE Continue(out, "print")
    /\ UNCHANGED <<environ, assignment_conf, tasks, taskIdx, task_conf, metrics, metricIdx, files>>

_create_artifact ==
    /\ pc = "artifact"
    /\ LET out == Append(stdout, <<"Creating artifact">>)
           script_path == ScriptPath("scripts/create_artifact.sh")
       IN \E rc \in ReturnCodes :
            /\ call' = Run(<<script_path>>, None, dict_update(environ, assignment_conf))
            /\ trace' = Append(trace, RunEvent("create_artifact", 0, None, rc))
            /\ IF ReturnedError(rc)
               THEN _print_error_and_exit(out, <<"Failed to execute create_artifact.sh">>)
               ELSE Continue(out, "print")
    /\ UNCHANGED <<environ, assignment_conf, tasks, taskIdx, task_conf, metrics, metricIdx, files>>

\* variant: _main ends after _present_results, without _revert_checkout
_present_results_exit ==
    /\ pc = "print"
    /\ LET script_path == ScriptPath("scripts/print_results_student.py")
       IN \E rc \in ReturnCodes :
            /\ call' = Run(<<script_path>>, None, dict_update(environ, assignment_conf))
            /\ trace' = Append(trace, RunEvent("print_results_student", 0, None, rc))
            /\ IF ReturnedError(rc)
               THEN _print_error_and_exit(stdout, <<"Failed to print student results">>)
               ELSE /\ stdout' = stdout
                    /\ pc' = "exited"
                    /\ exitCode' = <<0>>
    /\ UNCHANGED <<environ, assignment_conf, tasks, taskIdx, task_conf, metrics, metricIdx, files>>

\* _present_results after _create_artifact: print_results_student.py
_present_results ==
    /\ pc = "print"
    /\ LET script_path == ScriptPath("scripts/print_results_student.py")
       IN \E rc \in ReturnCodes :
            /\ call' = Run(<<script_path>>, None, dict_update(environ, assignment_conf))
            /\ trace' = Append(trace, RunEvent("print_results_student", 0, None, rc))
            /\ IF ReturnedError(rc)
               THEN _print_error_and_exit(stdout, <<"Failed to print student results">>)
               ELSE Continue(stdout, "revert")
    /\ UNCHANGED <<environ, assignment_conf, tasks, taskIdx, task_conf, metrics, metricIdx, files>>

\* variant: the returncode of revert_checkout.sh is inspected like the others
_revert_checkout_checked ==
    /\ pc = "revert"
    /\ LET script_path == ScriptPath("scripts/revert_checkout.sh")
       IN \E rc \in ReturnCodes :
            /\ call' = Run(<<script_path>>, None, environ)
            /\ trace' = Append(trace, RunEvent("revert_checkout", 0, None, rc))
            /\ IF ReturnedError(rc)
               THEN _print_error_and_exit(stdout, <<"Failed to revert checkout">>)
               ELSE /\ stdout' = stdout
                    /\ pc' = "exited"
                    /\ exitCode' = <<0>>
    /\ UNCHANGED <<environ, assignment_conf, tasks, taskIdx, task_conf, metrics, metricIdx, files>>

\* _revert_checkout, then _main returns and the interpreter ends with status 0
_revert_checkout ==
    /\ pc = "revert"
    /\ LET script_path == ScriptPath("scripts/revert_checkout.sh")
       IN \E rc \in ReturnCodes :
            /\ call' = Run(<<script_path>>, None, environ)
            /\ trace' = Append(trace, RunEvent("revert_checkout", 0, None, rc))
    /\ pc' = "exited"
    /\ exitCode' = <<0>>
    /\ UNCHANGED <<stdout, environ, assignment_conf, tasks, taskIdx, task_conf, metrics,
                   metricIdx, files>>

-----------------------------------------------------------------------------

Next ==
    \/ _load_assignment_config
    \/ _checkout_due_date
    \/ OverrideAssignment
    \/ _load_task_config
    \/ OverrideTask
    \/ _execute_metrics
    \/ _evaluate_metrics
    \/ _create_artifact
    \/ _present_results
    \/ _revert_checkout

Spec == Init /\ [][Next]_vars

-----------------------------------------------------------------------------
(* Vocabulary of the properties.                                           *)

Last == trace[Len(trace)]

IsRun(e, step) == e.kind = "run" /\ e.step = step

IsLoad(e) == e.kind = "load"

Succeeded(e) == e.exc = "ok" /\ e.rc = 0

\* the external steps whose exit status the script inspects
CheckedSteps ==
    {"checkout_due_date", "override_repo", "metric", "evaluate_task",
     "create_artifact", "print_results_student"}

\* the process has ended with the error message and the usage reminder as
\* the last lines of its output
ErrorMessages ==
    {"Failed to load ", "Failed to evaluate checkout commit",
     "Failed to execute override_repo.py", "Failed to execute metric ",
     "Failed to execute evaluate_task.py", "Failed to execute create_artifact.sh",
     "Failed to print student results"}

EndedWithUsage ==
    /\ Len(stdout) >= Len(_print_usage) + 1
    /\ SubSeq(stdout, Len(stdout) - Len(_print_usage) + 1, Len(stdout)) = _print_usage
    /\ stdout[Len(stdout) - Len(_print_usage)][1] \in ErrorMessages

\* the blank-separated fields of a configuration value, counted from the text
Blanks(s) == {i \in 1..Len(s) : s[i] = " "}

NumFields(s) == Cardinality(Blanks(s)) + 1

Field(s, k) ==
    LET cuts == {0} \cup Blanks(s) \cup {Len(s) + 1}
        nth(n) == CHOOSE c \in cuts : Cardinality({d \in cuts : d < c}) = n - 1
    IN SubSeq(s, nth(k) + 1, nth(k + 1) - 1)

\* the events of iteration k of the task loop, in order
IterEvents(k) ==
    LET InIter(e) == e.iter = k
    IN SelectSeq(trace, InIter)

\* top-level position of an event in the order of _main: the steps outside
\* the task loop by their script, everything inside the loop as one phase
PhaseOfStep ==
    [load_yaml |-> 1, checkout_due_date |-> 2, override_repo |-> 3,
     create_artifact |-> 5, print_results_student |-> 6, revert_checkout |-> 7]

TopPhase(e) == IF e.iter >= 1 THEN 4 ELSE PhaseOfStep[e.step]

-----------------------------------------------------------------------------
(* The properties.                                                         *)

\* C1: fail-fast.  An external step whose exit status is inspected and that
\* returned non-zero is the last entry of the trace and the process has
\* ended: no later metric, no step of a later task, nothing at all follows.
C1_FailFast ==
    \A i \in 1..Len(trace) :
        (trace[i].kind = "run" /\ trace[i].step \in CheckedSteps /\ trace[i].rc # 0)
            => (i = Len(trace) /\ pc = "exited")

\* a metric failed in the first of several tasks while metrics were left
C1_Witness ==
    /\ pc = "exited"
    /\ Len(trace) > 0
    /\ IsRun(Last, "metric") /\ Last.rc # 0
    /\ taskIdx < Len(tasks)
    /\ metricIdx < Len(metrics)

\* C2 as stated: status 0 only if every delegated step returned zero and
\* every config loaded, and any delegated step returning non-zero ends the
\* process with a non-zero status after the error message and the usage.
C2_Original ==
    pc = "exited" =>
        /\ exitCode = <<0>> => \A i \in 1..Len(trace) : Succeeded(trace[i])
        /\ (\E i \in 1..Len(trace) : trace[i].kind = "run" /\ trace[i].rc # 0)
               => (exitCode # <<0>> /\ EndedWithUsage)

\* C2 amended: the same with revert_checkout excepted, whose status is not
\* inspected.
C2_ExitCode ==
    pc = "exited" =>
        /\ exitCode = <<0>> =>
               \A i \in 1..Len(trace) :
                   IsRun(trace[i], "revert_checkout") \/ Succeeded(trace[i])
        /\ (\E i \in 1..Len(trace) :
                /\ trace[i].kind = "run"
                /\ ~IsRun(trace[i], "revert_checkout")
                /\ trace[i].rc # 0)
               => (exitCode # <<0>> /\ exitCode = <<255>> /\ EndedWithUsage)

\* the evaluation step of a task returned non-zero and the process has ended
C2_Witness ==
    /\ pc = "exited"
    /\ Len(trace) > 0
    /\ IsRun(Last, "evaluate_task") /\ Last.rc # 0
    /\ exitCode = <<255>>

\* C3: a configuration that cannot be loaded ends the run with a non-zero
\* status; nothing is started after the failed load, and a failed load of
\* assignment.yml is the only entry of the trace.
C3_ConfigAbort ==
    \A i \in 1..Len(trace) :
        (IsLoad(trace[i]) /\ trace[i].exc # "ok") =>
            /\ i = Len(trace)
            /\ pc = "exited"
            /\ exitCode # <<>> /\ exitCode # <<0>>
            /\ trace[i].iter = 0 => Len(trace) = 1

\* the task.yml of a task that is not the last one failed to parse
C3_Witness ==
    /\ pc = "exited"
    /\ Len(trace) > 0
    /\ IsLoad(Last) /\ Last.exc = "YAMLError" /\ Last.iter >= 1
    /\ taskIdx < Len(tasks)

\* C4: the top-level order is fixed.  The trace only grows at its end, so the
\* last entry and the one before it range over all neighbours of every run.
\* The first entry is the load of assignment.yml, which never occurs again;
\* an entry that has a successor succeeded; the successor is in the same or
\* the next phase of load, checkout, assignment-level override, tasks,
\* artifact, print, revert, and only the task phase holds more than one
\* entry; the tasks are taken one by one in the order of the fields of
\* ASSIGNMENT_TASKS, and the artifact follows the evaluation of the last field.
C4_TopLevelOrder ==
    LET listed == assignment_conf[ASSIGNMENT_TASKS]
        n == NumFields(listed)
        k == Len(trace)
    IN /\ k = 1 => TopPhase(trace[1]) = 1
       /\ k >= 2 =>
            LET e == trace[k - 1]
                f == trace[k]
                p == TopPhase(e)
                q == TopPhase(f)
            IN /\ Succeeded(e)
               /\ q # 1
               /\ q = p \/ q = p + 1
               /\ q = p => p = 4
               /\ q = 4 =>
                    /\ f.iter >= 1 /\ f.iter <= n
                    /\ f.iter = IF p = 4 THEN e.iter + (IF IsLoad(f) THEN 1 ELSE 0) ELSE 1
                    /\ IsLoad(f) =>
                         f.name = path_join(Field(listed, f.iter), TASK_FILENAME)
                    /\ (IsRun(f, "override_repo") \/ IsRun(f, "evaluate_task")) =>
                         f.name = Field(listed, f.iter)
               /\ (p = 4 /\ q = 5) => (IsRun(e, "evaluate_task") /\ e.iter = n)

\* a complete run over two tasks with different names
C4_Witness ==
    /\ pc = "exited"
    /\ Len(trace) > 0
    /\ IsRun(Last, "revert_checkout")
    /\ Len(tasks) = 2
    /\ tasks[1] # tasks[2]

\* C5: the order inside a task.  The entries of the current iteration are the
\* load of task.yml, the override, then the metrics named by the fields of
\* <TASK>_METRICS in their order, then the evaluation, which comes only
\* after the last field; every entry with a successor succeeded; and an
\* iteration begins only after the evaluation of the one before returned 0.
C5_PerTaskOrder ==
    /\ taskIdx >= 1 =>
         LET ev == IterEvents(taskIdx)
             listed == task_conf[MetricsKey(tasks[taskIdx])]
             n == NumFields(listed)
         IN \A j \in 1..Len(ev) :
              /\ j < Len(ev) => Succeeded(ev[j])
              /\ j = 1 => IsLoad(ev[j])
              /\ j = 2 => IsRun(ev[j], "override_repo")
              /\ (j >= 3 /\ j <= n + 2) =>
                     (IsRun(ev[j], "metric") /\ ev[j].name = Field(listed, j - 2))
              /\ (j >= 3 /\ j = n + 3) => IsRun(ev[j], "evaluate_task")
              /\ j >= 3 => j <= n + 3
    /\ \A i \in 1..(Len(trace) - 1) :
         (trace[i + 1].iter >= 2 /\ trace[i + 1].iter # trace[i].iter) =>
             /\ IsRun(trace[i], "evaluate_task")
             /\ trace[i].rc = 0
             /\ trace[i].iter + 1 = trace[i + 1].iter

\* the second task has been evaluated after both of its two metrics
C5_Witness ==
    /\ taskIdx = 2
    /\ Len(metrics) = 2
    /\ metrics[1] # metrics[2]
    /\ Len(trace) > 0
    /\ IsRun(Last, "evaluate_task") /\ Last.rc = 0

\* C6: metric resolution.  The command of a metric is the .sh script when it
\* exists, whether or not the .py script exists, else the .py script when it
\* exists, else ./gradlew with the metric name; it is decided by what exists
\* at this call alone, also when the same metric was resolved before.
C6_MetricResolution ==
    (Len(trace) > 0 /\ IsRun(Last, "metric")) =>
        LET m == Last.name
            base == environ[D2G_PATH] \o <<"/", "scripts/metrics/">> \o m
            sh == base \o <<".sh">>
            py == base \o <<".py">>
        IN /\ sh \in files => call.argv = <<sh>>
           /\ (sh \notin files /\ py \in files) => call.argv = <<py>>
           /\ (sh \notin files /\ py \notin files) => call.argv = <<<<"./gradlew">>, m>>

\* a metric of the same name is run a second time in the same task; now
\* both scripts exist
C6_Witness ==
    /\ Len(trace) > 1
    /\ IsRun(Last, "metric")
    /\ IsRun(trace[Len(trace) - 1], "metric")
    /\ trace[Len(trace) - 1].name = Last.name
    /\ Cardinality(files) = 2
    /\ Len(call.argv) = 1

\* C7: the final revert.  Once print_results_student has returned zero the
\* run is either about to call revert_checkout, which has not run yet and
\* which nothing keeps from running, or has ended with revert_checkout as
\* its last step, run exactly once.
C7_FinalRevert ==
    LET reverts == {i \in 1..Len(trace) : IsRun(trace[i], "revert_checkout")}
    IN /\ reverts \subseteq {Len(trace)}
       /\ (\E i \in 1..Len(trace) :
               IsRun(trace[i], "print_results_student") /\ trace[i].rc = 0)
            => \/ pc = "revert" /\ reverts = {} /\ ENABLED _revert_checkout
               \/ pc = "exited" /\ reverts = {Len(trace)}

\* a run that printed its results has ended, the revert being its last step
C7_Witness ==
    /\ pc = "exited"
    /\ Len(trace) > 1
    /\ IsRun(Last, "revert_checkout")
    /\ IsRun(trace[Len(trace) - 1], "print_results_student")

\* C8: the status of revert_checkout is ignored.  A run that reached the
\* revert ends with status 0 and without the error message and the usage
\* reminder, whatever revert_checkout returned.
C8_RevertIgnored ==
    (Len(trace) > 0 /\ IsRun(Last, "revert_checkout")) =>
        /\ pc = "exited"
        /\ exitCode = <<0>>
        /\ \A i \in 1..Len(stdout) :
             /\ stdout[i] # _print_usage[1]
             /\ stdout[i][1] \notin ErrorMessages

\* revert_checkout returned non-zero and the run ended with status 0
C8_Witness ==
    /\ pc = "exited"
    /\ Len(trace) > 0
    /\ IsRun(Last, "revert_checkout") /\ Last.rc # 0
    /\ exitCode = <<0>>

\* C9: environment merging.  For a task of non-empty name, the child of the
\* task-level override and the child of the evaluation get every variable of
\* os.environ, D2G_PATH among them, and every pair of the task
\* configuration; the evaluation also gets every pair of the assignment
\* configuration.
C9_EnvMerged ==
    (Len(trace) > 0 /\ Last.iter >= 1 /\ Last.kind = "run"
        /\ Last.step \in {"override_repo", "evaluate_task"} /\ Last.name # <<>>) =>
        /\ DOMAIN environ \subseteq DOMAIN call.env
        /\ D2G_PATH \in DOMAIN call.env
        /\ \A k \in DOMAIN task_conf :
             k \in DOMAIN call.env /\ call.env[k] = task_conf[k]
        /\ IsRun(Last, "evaluate_task") =>
             \A k \in DOMAIN assignment_conf :
                 k \in DOMAIN call.env /\ call.env[k] = assignment_conf[k]

\* C10: no rollback on failure.  revert_checkout runs only after
\* print_results_student returned zero; a run that ended on a fatal error
\* after a successful checkout has not run it.
C10_NoRollback ==
    /\ \A i \in 1..Len(trace) :
         IsRun(trace[i], "revert_checkout") =>
             (i > 1 /\ IsRun(trace[i - 1], "print_results_student")
                    /\ trace[i - 1].rc = 0)
    /\ (/\ pc = "exited"
        /\ exitCode # <<0>>
        /\ \E i \in 1..Len(trace) : IsRun(trace[i], "checkout_due_date") /\ trace[i].rc = 0)
         => \A i \in 1..Len(trace) : ~IsRun(trace[i], "revert_checkout")

\* the checkout succeeded, creating the artifact failed, the run has ended
C10_Witness ==
    /\ pc = "exited"
    /\ Len(trace) > 1
    /\ IsRun(trace[2], "checkout_due_date") /\ trace[2].rc = 0
    /\ IsRun(Last, "create_artifact") /\ Last.rc # 0
    /\ exitCode = <<255>>

====
